---- MODULE Spec2Model ----
(***************************************************************************)
(* A model of UDPNode (src/UDPNode/UDPNode.h, src/UDPNode/UDPNode.cpp): a  *)
(* UDP endpoint with a listening socket bound at construction, a receive   *)
(* thread (rxLoop) that decodes datagrams into a mutex-protected queue,    *)
(* consumer threads that query and pop the queue, and a controller thread  *)
(* that starts, stops and destroys the endpoint.                           *)
(*                                                                         *)
(* Threads are interleaved at the points where they touch shared state:    *)
(* the stop flag, the socket, the mutex and the queue.                     *)
(***************************************************************************)
EXTENDS Integers, Sequences, FiniteSets, TLC

\* ------------------------------------------------------------------ bounds

\* Constructor argument maxqsize (2 is scenario 2 of the specification).
maxqueuesize == 2
\* Datagrams that peers send to the listening port during one run.
MaxArrivals == 3
\* Datagrams the kernel buffers on the listening socket before dropping.
MaxSockBuf == 2
\* Calls the controller makes during one run (startRxLoop, endRxLoop, the
\* destructor).
MaxCalls == 3
\* Pops issued beyond the last buffered datagram that the run follows.
MaxUnderflow == 1
\* Consumer threads.
NumConsumers == 2
\* Bytes of the longest message given to the codec.
MaxMsgLen == 2
\* Addresses in the longest list getaddrinfo returns.
MaxCandidates == 3
\* Threads that call tx concurrently (endRxLoop's caller is one of them).
NumSenders == 2
\* Calls of tx made during one run.
MaxTxCalls == 3

Senders == 1..NumSenders

Consumers == 1..NumConsumers

\* ------------------------------------------------------------- error codes

SUCCESS == 0
SOCKET_CONN_FAILED == -1
BIND_FAILED == -2
RECVFROM_FAILED == -3
SENDTO_FAILED == -4
GETADDRINFO_FAILED == -5
PARSE_TIME_FAILED == -6
PARSE_MSG_FAILED == -7
PARSE_CRC_FAILED == -8

\* ------------------------------------------------------ unsigned integers

(* An unsigned int (32 bits) is the pair <<high 16 bits, low 16 bits>>: the *)
(* values the sign extension of a char produces do not fit the checker's    *)
(* integers.                                                                *)
RECURSIVE Xor(_, _)
Xor(a, b) ==
    IF a = 0 THEN b
    ELSE IF b = 0 THEN a
    ELSE 2 * Xor(a \div 2, b \div 2) + (((a % 2) + (b % 2)) % 2)

U32Xor(x, y) == <<Xor(x[1], y[1]), Xor(x[2], y[2])>>

\* char is a signed type on the x86-64 Linux ABI the repository builds for.
CHAR_IS_SIGNED == TRUE

\* The conversion char -> int -> unsigned int that `crc_check_act ^= msg[i]`
\* performs on the byte c of a std::string.
CharToUInt(c) ==
    IF CHAR_IS_SIGNED /\ c >= 128 THEN <<65535, 65280 + c>> ELSE <<0, c>>

\* ------------------------------------------------------------ wire frames

(* A frame is the JSON object of one datagram: which of the members Time,  *)
(* Msg and CRC it has, the values of Msg and CRC, and the Join_thr member  *)
(* ("absent", "true" or "false"). src is the sender recvfrom reports.      *)
(* Peers send JSON objects that are not empty and fit the receive buffer.  *)
MkFrame(src, hasTime, hasMsg, hasCRC, msg, crc, join) ==
    [src |-> src, hasTime |-> hasTime, hasMsg |-> hasMsg, hasCRC |-> hasCRC,
     msg |-> msg, crc |-> crc, join |-> join]

\* The bytes of a std::string up to its first zero byte, as c_str() gives
\* them to strlen and to Writer::String(const Ch*).
RECURSIVE CStr(_)
CStr(msg) ==
    IF msg = <<>> \/ Head(msg) = 0 THEN <<>>
    ELSE <<Head(msg)>> \o CStr(Tail(msg))

\* The checksum loop of serialize: an unsigned char accumulator.
RECURSIVE SerializeCrc(_)
SerializeCrc(bytes) ==
    IF bytes = <<>> THEN 0
    ELSE Xor(Head(bytes), SerializeCrc(Tail(bytes))) % 256

serialize(src, msg, jointhread) ==
    MkFrame(src, TRUE, TRUE, TRUE, CStr(msg), <<0, SerializeCrc(CStr(msg))>>,
            IF jointhread THEN "true" ELSE "absent")

\* ------------------------------------------------------------- datagrams

MkDatagram(src, msg, crc, join) ==
    [srcipaddr |-> src, msg |-> msg, crc_checksum |-> crc, jointhread |-> join]

\* No datagram: the value of a local that holds none.
NoDatagram == MkDatagram("none", <<>>, <<0, 0>>, FALSE)
\* What front() yields on an empty queue: storage that holds no element.
Garbage == MkDatagram("garbage", <<>>, <<0, 0>>, FALSE)

\* parseDatagram: the error code is overwritten by each later missing member.
parseError_first(f) ==
    IF ~f.hasTime THEN PARSE_TIME_FAILED
    ELSE IF ~f.hasMsg THEN PARSE_MSG_FAILED
    ELSE IF ~f.hasCRC THEN PARSE_CRC_FAILED
    ELSE SUCCESS

parseError(f) ==
    LET e1 == IF f.hasTime THEN SUCCESS ELSE PARSE_TIME_FAILED
        e2 == IF f.hasMsg THEN e1 ELSE PARSE_MSG_FAILED
        e3 == IF f.hasCRC THEN e2 ELSE PARSE_CRC_FAILED
    IN  e3

\* Lines 294-319. std::string(d["Msg"].GetString()) ends at the first zero
\* byte. A member that is missing leaves its field as rxDatagram's
\* declaration (line 138) made it; the callers do not read it then.
parseDatagram(f) ==
    MkDatagram(f.src,
               IF f.hasMsg THEN CStr(f.msg) ELSE <<>>,
               IF f.hasCRC THEN f.crc ELSE <<0, 0>>,
               f.join = "true")

RECURSIVE CrcCheckAct(_)
CrcCheckAct(bytes) ==
    IF bytes = <<>> THEN <<0, 0>>
    ELSE U32Xor(CharToUInt(Head(bytes)), CrcCheckAct(Tail(bytes)))

isDatagramValid(d) == CrcCheckAct(d.msg) = d.crc_checksum

\* No frame: the content of a buffer that holds none.
NoFrame == MkFrame("none", FALSE, FALSE, FALSE, <<>>, <<0, 0>>, "absent")

\* ---------------------------------------------------------- the messages

MsgA == <<65>>
MsgB == <<66>>
\* One byte >= 0x80.
MsgHi == <<255>>
\* "Goodbye", the message of the datagram endRxLoop sends to its own port.
Goodbye == <<71, 111, 111, 100, 98, 121, 101>>

\* The frames peers send: frames this library's serialize produces (with and
\* without the shutdown marker), and frames written by other senders: a wrong
\* checksum, a checksum with the sign extension of the byte folded in, a
\* missing member.
PeerFrames ==
    { serialize("peer", MsgA, FALSE),
      serialize("peer", MsgB, FALSE),
      serialize("peer", MsgA, TRUE),
      MkFrame("peer", TRUE, TRUE, TRUE, MsgA, <<0, 0>>, "absent"),
      MkFrame("peer", TRUE, TRUE, TRUE, MsgHi, <<65535, 65535>>, "absent"),
      MkFrame("peer", TRUE, TRUE, FALSE, MsgA, <<0, 0>>, "absent") }

\* tx(_listenport, _listenipver, "localhost", "Goodbye", true)
SentinelFrame == serialize("self", Goodbye, TRUE)

\* ------------------------------------------------------------------ state

VARIABLES
    listensockfd,    \* _listensockfd: -1, or the descriptor of the bound socket
    sockbuf,         \* datagrams the kernel holds for the listening socket
    stoprecvthread,  \* _stoprecvthread
    joinable,        \* _rxthread.joinable()
    rxpc,            \* where the thread running rxLoop is
    datagram,        \* rxLoop's local datagram
    error_code,      \* rxLoop's local error_code
    fullatrecv,      \* whether the queue was full when recvfrom returned
    rxqueue,         \* _rxqueue: the elements between the deque's cursors
    underflow,       \* how far the deque's start cursor is beyond its finish
    mtx,             \* _mtx: 0 when free, else the consumer thread holding it
    cpc,             \* where each consumer thread is
    mainpc,          \* where the controller thread is
    dtor,            \* whether the controller is inside ~UDPNode
    stopidle,        \* whether the running endRxLoop was entered with no thread
    sentinel,        \* the datagram endRxLoop sent to its own port
    fault,           \* "none", or how the process died
    enq,             \* every datagram appended to the queue, in order
    popped,          \* every buffered datagram a pop returned, in order
    nstart, nstop, narrive

nodevars ==
    <<listensockfd, sockbuf, stoprecvthread, joinable, rxpc, datagram,
      error_code, fullatrecv, rxqueue, underflow, mtx, cpc, mainpc, dtor,
      stopidle, sentinel, fault, enq, popped, nstart, nstop, narrive>>

\* What each consumer thread knows of the queue from its last query.
VARIABLES
    seen,            \* datagrams the consumer's last query told it are buffered
    raced            \* whether another consumer has popped since that query

obsvars == <<seen, raced>>

\* The codec taken alone: serialize, parseDatagram and isDatagramValid applied
\* to one message or one frame.
VARIABLES
    cstep,           \* "input", "wire", "parsed" or "validated"
    worigin,         \* who wrote the frame: "serialize" or "foreign"
    wmsg,            \* the std::string given to serialize
    wjoin,           \* the jointhread argument given to serialize
    wire,            \* the frame in the receive buffer
    decoded,         \* the rxDatagram parseDatagram filled in
    parse_rv,        \* the err_code parseDatagram returned
    valid            \* what isDatagramValid returned

codecvars == <<cstep, worigin, wmsg, wjoin, wire, decoded, parse_rv, valid>>

\* The constructor taken alone: createSocketAndBind and what UDPNode::UDPNode
\* does with its result.
VARIABLES
    bpc,             \* where the constructing thread is
    resolved,        \* what getaddrinfo is going to answer
    rxservinfo,      \* the list rxservinfo points to
    rx_p,            \* the place of *rx_p in that list, NULL when beyond it
    bind_error_code, \* createSocketAndBind's local error_code
    bind_sockfd,     \* _listensockfd while the constructor runs
    bound_at,        \* the place of the address the socket was bound to
    bind_rv          \* the constructor's local rv

bindvars ==
    <<bpc, resolved, rxservinfo, rx_p, bind_error_code, bind_sockfd, bound_at,
      bind_rv>>

\* tx taken alone, called by several threads. The locals are per thread;
\* _sendsockfd is the one member they all write and read.
VARIABLES
    tpc,             \* where each thread is inside tx
    tx_resolved,     \* what getaddrinfo is going to answer to the call
    tx_sendok,       \* whether the network takes the datagram of the call
    txservinfo,      \* the list txservinfo points to
    tx_p,            \* the place of *tx_p in that list, NULL when beyond it
    tx_error_code,   \* tx's local error_code
    sendsockfd,      \* _sendsockfd
    sendfds,         \* for each descriptor, the thread whose call opened the
                     \* socket, 0 when the descriptor is closed
    tx_sent,         \* what became of the call's sendto: "none", "ok", "failed"
    tx_rv,           \* what the call returned
    tx_fault,        \* "none", or how the process died
    ntx              \* calls made so far

txvars ==
    <<tpc, tx_resolved, tx_sendok, txservinfo, tx_p, tx_error_code,
      sendsockfd, sendfds, tx_sent, tx_rv, tx_fault, ntx>>

\* The variables the endpoint's threads do not touch.
auxvars == <<codecvars, bindvars, txvars>>

vars == <<nodevars, obsvars, auxvars>>

\* The descriptor socket() returned to createSocketAndBind.
ListenFd == 3

\* The state after UDPNode::UDPNode has returned: the socket is bound, the
\* stop flag is false, no thread has been started, the queue is empty.
NodeInit ==
    /\ listensockfd = ListenFd
    /\ sockbuf = <<>>
    /\ stoprecvthread = FALSE
    /\ joinable = FALSE
    /\ rxpc = "none"
    /\ datagram = NoDatagram
    /\ error_code = SUCCESS
    /\ fullatrecv = FALSE
    /\ rxqueue = <<>>
    /\ underflow = 0
    /\ mtx = 0
    /\ cpc = [c \in Consumers |-> "idle"]
    /\ mainpc = "idle"
    /\ dtor = FALSE
    /\ stopidle = FALSE
    /\ sentinel = "none"
    /\ fault = "none"
    /\ enq = <<>>
    /\ popped = <<>>
    /\ nstart = 0
    /\ nstop = 0
    /\ narrive = 0

\* The process runs: it has not been terminated and the object is alive.
Alive == fault = "none" /\ mainpc # "destroyed"

\* ------------------------------------------------------------- the queue

(* std::queue over std::deque: size() is the distance from the start cursor *)
(* to the finish cursor. pop() on an empty deque moves the start cursor     *)
(* beyond the finish cursor, and the distance, a size_t, wraps around.      *)
DequeDistance == Len(rxqueue) - underflow

\* `_rxqueue.size() < _maxqueuesize`: a size_t against an unsigned int. A
\* wrapped distance is larger than every unsigned int.
QueueHasRoom_le(distance) == distance >= 0 /\ distance <= maxqueuesize
QueueHasRoom(distance) == distance >= 0 /\ distance < maxqueuesize

\* rxDataQueueSize(): size() converted to int.
rxDataQueueSize_plus1 == DequeDistance + 1
rxDataQueueSize == DequeDistance

\* rxDataAvailable(): !empty(), the cursors differ.
rxDataAvailable_always == TRUE
rxDataAvailable == DequeDistance # 0

\* _rxqueue.push(datagram): the element is constructed at the finish cursor,
\* which then advances. Behind a start cursor that is beyond it, the element
\* is not between the cursors.
QueuePush(q, d) == Append(q, d)

\* _rxqueue.front()
QueueFront_back(q) == q[Len(q)]
QueueFront(q) == Head(q)

\* _rxqueue.pop()
QueuePop(q) == Tail(q)

\* --------------------------------------------------- the receive thread

\* Line 119: while(!_stoprecvthread)
LoopTest_ignoreflag(flag) == TRUE
LoopTest(flag) == ~flag

RxTest ==
    /\ Alive
    /\ rxpc = "test"
    /\ rxpc' = IF LoopTest(stoprecvthread) THEN "recv" ELSE "exited"
    /\ UNCHANGED <<listensockfd, sockbuf, stoprecvthread, joinable, datagram,
                   error_code, fullatrecv, rxqueue, underflow, mtx, cpc,
                   mainpc, dtor, stopidle, sentinel, fault, enq, popped,
                   nstart, nstop, narrive>>
    /\ UNCHANGED <<obsvars, auxvars>>

\* Lines 126-129 on the descriptor -1: recvfrom fails at once (EBADF) and the
\* loop is left.
RxRecvBadFd ==
    /\ Alive
    /\ rxpc = "recv"
    /\ listensockfd = -1
    /\ error_code' = RECVFROM_FAILED
    /\ rxpc' = "exited"
    /\ UNCHANGED <<listensockfd, sockbuf, stoprecvthread, joinable, datagram,
                   fullatrecv, rxqueue, underflow, mtx, cpc, mainpc, dtor,
                   stopidle, sentinel, fault, enq, popped, nstart, nstop,
                   narrive>>
    /\ UNCHANGED <<obsvars, auxvars>>

\* Lines 126-129 on the bound socket: the system call may fail (EINTR,
\* ENOMEM); the loop is left.
RxRecvError_continue ==
    /\ Alive
    /\ rxpc = "recv"
    /\ listensockfd # -1
    /\ error_code' = RECVFROM_FAILED
    /\ rxpc' = "test"
    /\ UNCHANGED <<listensockfd, sockbuf, stoprecvthread, joinable, datagram,
                   fullatrecv, rxqueue, underflow, mtx, cpc, mainpc, dtor,
                   stopidle, sentinel, fault, enq, popped, nstart, nstop,
                   narrive>>
    /\ UNCHANGED <<obsvars, auxvars>>

RxRecvError ==
    /\ Alive
    /\ rxpc = "recv"
    /\ listensockfd # -1
    /\ error_code' = RECVFROM_FAILED
    /\ rxpc' = "exited"
    /\ UNCHANGED <<listensockfd, sockbuf, stoprecvthread, joinable, datagram,
                   fullatrecv, rxqueue, underflow, mtx, cpc, mainpc, dtor,
                   stopidle, sentinel, fault, enq, popped, nstart, nstop,
                   narrive>>
    /\ UNCHANGED <<obsvars, auxvars>>

\* Lines 126-148: recvfrom returns the oldest datagram of the socket; it is
\* parsed; a parse error leaves the loop (line 142); an invalid checksum is
\* only logged (line 146).
RxRecv ==
    /\ Alive
    /\ rxpc = "recv"
    /\ listensockfd # -1
    /\ sockbuf # <<>>
    /\ sockbuf' = Tail(sockbuf)
    /\ error_code' = parseError(Head(sockbuf))
    /\ IF parseError(Head(sockbuf)) # SUCCESS
       THEN /\ rxpc' = "exited"
            /\ UNCHANGED <<datagram, fullatrecv>>
       ELSE /\ rxpc' = "log"
            /\ datagram' = parseDatagram(Head(sockbuf))
            /\ fullatrecv' = (Len(rxqueue) = maxqueuesize)
    /\ UNCHANGED <<listensockfd, stoprecvthread, joinable, rxqueue, underflow,
                   mtx, cpc, mainpc, dtor, stopidle, sentinel, fault, enq,
                   popped, nstart, nstop, narrive>>
    /\ UNCHANGED <<obsvars, auxvars>>

\* Lines 150-152: rxDataQueueSize() takes the mutex; the result is only logged.
RxLog ==
    /\ Alive
    /\ rxpc = "log"
    /\ mtx = 0
    /\ rxpc' = "check"
    /\ UNCHANGED <<listensockfd, sockbuf, stoprecvthread, joinable, datagram,
                   error_code, fullatrecv, rxqueue, underflow, mtx, cpc,
                   mainpc, dtor, stopidle, sentinel, fault, enq, popped,
                   nstart, nstop, narrive>>
    /\ UNCHANGED <<obsvars, auxvars>>

\* Line 164: the condition of the push. _rxqueue.size() is read without the
\* mutex: while a consumer is inside readRxDatagramFromQueue the read races
\* with the pop and yields any value (sizeok is then any boolean). The read
\* is made only when jointhread is false (&& evaluates left to right).
EnqueueCondition(d, sizeok) ==
    d.jointhread = FALSE /\ sizeok /\ isDatagramValid(d)

RxCheck ==
    /\ Alive
    /\ rxpc = "check"
    /\ \E sizeok \in BOOLEAN :
          /\ mtx = 0 => sizeok = QueueHasRoom(DequeDistance)
          /\ IF EnqueueCondition(datagram, sizeok)
             THEN /\ rxpc' = "write"
                  /\ UNCHANGED <<datagram, fullatrecv>>
             ELSE /\ rxpc' = "test"
                  /\ datagram' = NoDatagram
                  /\ fullatrecv' = FALSE
    /\ UNCHANGED <<listensockfd, sockbuf, stoprecvthread, joinable, error_code,
                   rxqueue, underflow, mtx, cpc, mainpc, dtor, stopidle,
                   sentinel, fault, enq, popped, nstart, nstop, narrive>>
    /\ UNCHANGED <<obsvars, auxvars>>

\* Lines 165, 179-182: writeRxDatagramToQueue takes the mutex and pushes.
writeRxDatagramToQueue ==
    /\ Alive
    /\ rxpc = "write"
    /\ mtx = 0
    /\ IF underflow > 0
       THEN /\ underflow' = underflow - 1
            /\ UNCHANGED <<rxqueue, enq>>
       ELSE /\ rxqueue' = QueuePush(rxqueue, datagram)
            /\ enq' = Append(enq, datagram)
            /\ UNCHANGED underflow
    /\ rxpc' = "test"
    /\ datagram' = NoDatagram
    /\ fullatrecv' = FALSE
    /\ UNCHANGED <<listensockfd, sockbuf, stoprecvthread, joinable, error_code,
                   mtx, cpc, mainpc, dtor, stopidle, sentinel, fault, popped,
                   nstart, nstop, narrive>>
    /\ UNCHANGED <<obsvars, auxvars>>

\* The steps the thread takes by itself, once what it waits for is there.
rxLoop == RxTest \/ RxRecvBadFd \/ RxRecv \/ RxLog \/ RxCheck
             \/ writeRxDatagramToQueue

\* ------------------------------------------------------- the controller

\* Lines 89-93. Assigning to a joinable std::thread calls std::terminate().
startRxLoop ==
    /\ Alive
    /\ mainpc = "idle"
    /\ nstart + nstop < MaxCalls
    /\ nstart' = nstart + 1
    /\ stoprecvthread' = FALSE
    /\ IF joinable
       THEN /\ fault' = "terminate"
            /\ UNCHANGED <<joinable, rxpc, datagram, error_code>>
       ELSE /\ joinable' = TRUE
            /\ rxpc' = "test"
            /\ datagram' = NoDatagram
            /\ error_code' = SUCCESS
            /\ UNCHANGED fault
    /\ UNCHANGED <<listensockfd, sockbuf, fullatrecv, rxqueue, underflow, mtx,
                   cpc, mainpc, dtor, stopidle, sentinel, enq, popped, nstop,
                   narrive>>
    /\ UNCHANGED <<obsvars, auxvars>>

\* Lines 95-97 (and line 72 when the destructor makes the call): the flag is
\* set whatever the state of the thread.
EndRxLoopEnter(indtor) ==
    /\ Alive
    /\ mainpc = "idle"
    /\ nstart + nstop < MaxCalls
    /\ nstop' = nstop + 1
    /\ stoprecvthread' = TRUE
    /\ mainpc' = "stop_tx"
    /\ dtor' = indtor
    /\ stopidle' = ~joinable
    /\ sentinel' = "none"
    /\ UNCHANGED <<listensockfd, sockbuf, joinable, rxpc, datagram, error_code,
                   fullatrecv, rxqueue, underflow, mtx, cpc, fault, enq,
                   popped, nstart, narrive>>
    /\ UNCHANGED <<obsvars, auxvars>>

endRxLoop == EndRxLoopEnter(FALSE)

Destructor == EndRxLoopEnter(TRUE)

\* Line 99: tx to the own port: the datagram leaves or tx fails.
EndRxLoopTx ==
    /\ Alive
    /\ mainpc = "stop_tx"
    /\ \E sent \in BOOLEAN : sentinel' = IF sent THEN "inflight" ELSE "failed"
    /\ mainpc' = "stop_join"
    /\ UNCHANGED <<listensockfd, sockbuf, stoprecvthread, joinable, rxpc,
                   datagram, error_code, fullatrecv, rxqueue, underflow, mtx,
                   cpc, dtor, stopidle, fault, enq, popped, nstart, nstop,
                   narrive>>
    /\ UNCHANGED <<obsvars, auxvars>>

\* Lines 102-104: join() returns once the thread has left rxLoop.
JoinReturns_nowait(pc) == TRUE
JoinReturns(pc) == pc = "exited"

EndRxLoopJoin ==
    /\ Alive
    /\ mainpc = "stop_join"
    /\ joinable => JoinReturns(rxpc)
    /\ joinable' = FALSE
    /\ mainpc' = "stop_close"
    /\ UNCHANGED <<listensockfd, sockbuf, stoprecvthread, rxpc, datagram,
                   error_code, fullatrecv, rxqueue, underflow, mtx, cpc, dtor,
                   stopidle, sentinel, fault, enq, popped, nstart, nstop,
                   narrive>>
    /\ UNCHANGED <<obsvars, auxvars>>

\* Lines 106-109, and lines 73-86 when in the destructor (the thread is not
\* joinable and the socket is closed by then).
EndRxLoopClose ==
    /\ Alive
    /\ mainpc = "stop_close"
    /\ listensockfd' = -1
    /\ sockbuf' = <<>>
    /\ mainpc' = IF dtor THEN "destroyed" ELSE "idle"
    /\ stopidle' = FALSE
    /\ sentinel' = "none"
    /\ UNCHANGED <<stoprecvthread, joinable, rxpc, datagram, error_code,
                   fullatrecv, rxqueue, underflow, mtx, cpc, dtor, fault, enq,
                   popped, nstart, nstop, narrive>>
    /\ UNCHANGED <<obsvars, auxvars>>

\* ------------------------------------------------------------ the network

\* The datagram endRxLoop sent reaches the listening socket, unless the socket
\* is closed or its buffer is full.
SentinelDeliver ==
    /\ Alive
    /\ sentinel = "inflight"
    /\ IF listensockfd # -1 /\ Len(sockbuf) < MaxSockBuf
       THEN /\ sockbuf' = Append(sockbuf, SentinelFrame)
            /\ sentinel' = "delivered"
       ELSE /\ sentinel' = "lost"
            /\ UNCHANGED sockbuf
    /\ UNCHANGED <<listensockfd, stoprecvthread, joinable, rxpc, datagram,
                   error_code, fullatrecv, rxqueue, underflow, mtx, cpc,
                   mainpc, dtor, stopidle, fault, enq, popped, nstart, nstop,
                   narrive>>
    /\ UNCHANGED <<obsvars, auxvars>>

\* UDP gives no delivery guarantee.
SentinelLose ==
    /\ Alive
    /\ sentinel = "inflight"
    /\ sentinel' = "lost"
    /\ UNCHANGED <<listensockfd, sockbuf, stoprecvthread, joinable, rxpc,
                   datagram, error_code, fullatrecv, rxqueue, underflow, mtx,
                   cpc, mainpc, dtor, stopidle, fault, enq, popped, nstart,
                   nstop, narrive>>
    /\ UNCHANGED <<obsvars, auxvars>>

\* A peer's datagram reaches the bound listening socket.
PeerSend ==
    /\ Alive
    /\ narrive < MaxArrivals
    /\ listensockfd # -1
    /\ Len(sockbuf) < MaxSockBuf
    /\ \E f \in PeerFrames : sockbuf' = Append(sockbuf, f)
    /\ narrive' = narrive + 1
    /\ UNCHANGED <<listensockfd, stoprecvthread, joinable, rxpc, datagram,
                   error_code, fullatrecv, rxqueue, underflow, mtx, cpc,
                   mainpc, dtor, stopidle, sentinel, fault, enq, popped,
                   nstart, nstop>>
    /\ UNCHANGED <<obsvars, auxvars>>

\* ---------------------------------------------------------- the consumers

\* rxDataAvailable() and rxDataQueueSize() take the mutex, read and release
\* it: they change nothing of the endpoint. What the caller learns is kept in
\* seen: 0 when the answer was false; 1 when it was true of a datagram that
\* is buffered; -1 when it was true of cursors that had crossed.
rxDataAvailableCall(c) ==
    /\ Alive
    /\ cpc[c] = "idle"
    /\ mtx = 0
    /\ seen' = [seen EXCEPT ![c] = IF rxDataAvailable
                                   THEN (IF DequeDistance < 0 THEN -1 ELSE 1)
                                   ELSE 0]
    /\ raced' = [raced EXCEPT ![c] = FALSE]
    /\ UNCHANGED <<nodevars, auxvars>>

\* Lines 206-209, as src/examples/UDPreceiver/main.cpp (lines 11-12) uses
\* them: the int is kept in an unsigned int and that many pops are made. The
\* wrapped size of crossed cursors is a count no run comes to the end of.
rxDataQueueSizeCall(c) ==
    /\ Alive
    /\ cpc[c] = "idle"
    /\ mtx = 0
    /\ seen' = [seen EXCEPT ![c] = IF rxDataQueueSize < 0
                                   THEN -1
                                   ELSE rxDataQueueSize]
    /\ raced' = [raced EXCEPT ![c] = FALSE]
    /\ UNCHANGED <<nodevars, auxvars>>

\* A pop by consumer c has returned: c has used up one datagram of what it
\* knew, and what every other consumer knows is out of date.
Forget(c) ==
    /\ seen' = [seen EXCEPT ![c] = IF @ > 0 THEN @ - 1 ELSE 0]
    /\ raced' = [d \in Consumers |->
                    IF d = c THEN raced[c] /\ seen[c] > 1 ELSE seen[d] # 0]

\* Lines 211-212: the consumer takes the mutex.
PopLock(c) ==
    /\ Alive
    /\ cpc[c] = "idle"
    /\ mtx = 0
    /\ mtx' = c
    /\ cpc' = [cpc EXCEPT ![c] = "pop"]
    /\ UNCHANGED <<listensockfd, sockbuf, stoprecvthread, joinable, rxpc,
                   datagram, error_code, fullatrecv, rxqueue, underflow,
                   mainpc, dtor, stopidle, sentinel, fault, enq, popped,
                   nstart, nstop, narrive>>
    /\ UNCHANGED <<obsvars, auxvars>>

\* Lines 213-216 with a datagram in the queue: front(), pop(), unlock, return.
PopBuffered(c) ==
    /\ Alive
    /\ cpc[c] = "pop"
    /\ DequeDistance > 0
    /\ popped' = Append(popped, QueueFront(rxqueue))
    /\ rxqueue' = QueuePop(rxqueue)
    /\ mtx' = 0
    /\ cpc' = [cpc EXCEPT ![c] = "idle"]
    /\ Forget(c)
    /\ UNCHANGED <<listensockfd, sockbuf, stoprecvthread, joinable, rxpc,
                   datagram, error_code, fullatrecv, underflow, mainpc, dtor,
                   stopidle, sentinel, fault, enq, nstart, nstop, narrive>>
    /\ UNCHANGED auxvars

\* Lines 213-216 with no datagram between the cursors: front() and pop() have
\* undefined behaviour. Either the copy or the destruction of the element
\* that is not there kills the process, or a datagram of whatever the storage
\* holds is returned and the start cursor moves on.
PopEmptyCrash(c) ==
    /\ Alive
    /\ cpc[c] = "pop"
    /\ DequeDistance <= 0
    /\ fault' = "crash"
    /\ UNCHANGED <<listensockfd, sockbuf, stoprecvthread, joinable, rxpc,
                   datagram, error_code, fullatrecv, rxqueue, underflow, mtx,
                   cpc, mainpc, dtor, stopidle, sentinel, enq, popped, nstart,
                   nstop, narrive>>
    /\ UNCHANGED <<obsvars, auxvars>>

PopEmptyGarbage(c) ==
    /\ Alive
    /\ cpc[c] = "pop"
    /\ DequeDistance <= 0
    /\ underflow < MaxUnderflow
    /\ underflow' = underflow + 1
    /\ mtx' = 0
    /\ cpc' = [cpc EXCEPT ![c] = "idle"]
    /\ Forget(c)
    /\ UNCHANGED <<listensockfd, sockbuf, stoprecvthread, joinable, rxpc,
                   datagram, error_code, fullatrecv, rxqueue, mainpc, dtor,
                   stopidle, sentinel, fault, enq, popped, nstart, nstop,
                   narrive>>
    /\ UNCHANGED auxvars

readRxDatagramFromQueue(c) ==
    PopLock(c) \/ PopBuffered(c) \/ PopEmptyCrash(c) \/ PopEmptyGarbage(c)

\* src/examples/UDPreceiver/main.cpp, lines 10-13: the caller pops only after
\* a query told it that data is there.
CheckedPop(c) == seen[c] # 0 /\ readRxDatagramFromQueue(c)

\* A consumer thread that queries before it pops.
CheckingConsumer(c) ==
    rxDataAvailableCall(c) \/ rxDataQueueSizeCall(c) \/ CheckedPop(c)

\* -------------------------------------------------- the constructor alone

\* The null pointer, as a place in a list.
NULL == 0

\* What the system answers for an address of the list: socket() fails, or
\* socket() succeeds and bind() fails, or both succeed.
Candidates == {"nosocket", "nobind", "ok"}

\* What getaddrinfo answers: an error, or a list of at least one address.
Resolutions ==
    {[ok |-> FALSE, list |-> <<>>]}
        \cup {[ok |-> TRUE, list |-> l] :
                 l \in UNION {[1..n -> Candidates] : n \in 1..MaxCandidates}}

\* The head of a list, and p->ai_next.
ListHead(list) == IF list = <<>> THEN NULL ELSE 1
ai_next(list, p) == IF p < Len(list) THEN p + 1 ELSE NULL

\* Lines 32-35 and the initialisation of the loop of line 38. When
\* getaddrinfo fails rxservinfo is read uninitialised: whatever the stack
\* holds is taken for a list. It is the null pointer, or a pointer whose
\* first dereference (line 39) kills the process.
BindGetaddrinfo ==
    /\ bpc = "getaddrinfo"
    /\ IF resolved.ok
       THEN /\ rxservinfo' = resolved.list
            /\ rx_p' = ListHead(resolved.list)
            /\ bpc' = "loop"
            /\ UNCHANGED bind_error_code
       ELSE /\ bind_error_code' = GETADDRINFO_FAILED
            /\ \E wild \in BOOLEAN :
                  /\ bpc' = IF wild THEN "crashed" ELSE "loop"
                  /\ rxservinfo' = <<>>
                  /\ rx_p' = NULL
    /\ UNCHANGED <<resolved, bind_sockfd, bound_at, bind_rv>>
    /\ UNCHANGED <<nodevars, obsvars, codecvars, txvars>>

\* Lines 38-53, one address of the list.
BindTry ==
    /\ bpc = "loop"
    /\ rx_p # NULL
    /\ IF rxservinfo[rx_p] = "nosocket"
       THEN /\ bind_sockfd' = -1
            /\ bind_error_code' = SOCKET_CONN_FAILED
            /\ rx_p' = ai_next(rxservinfo, rx_p)
            /\ UNCHANGED <<bpc, bound_at>>
       ELSE IF rxservinfo[rx_p] = "nobind"
       THEN /\ bind_sockfd' = -1
            /\ bind_error_code' = BIND_FAILED
            /\ rx_p' = ai_next(rxservinfo, rx_p)
            /\ UNCHANGED <<bpc, bound_at>>
       ELSE /\ bind_sockfd' = ListenFd
            /\ bound_at' = rx_p
            /\ bpc' = "bound"
            /\ UNCHANGED <<bind_error_code, rx_p>>
    /\ UNCHANGED <<resolved, rxservinfo, bind_rv>>
    /\ UNCHANGED <<nodevars, obsvars, codecvars, txvars>>

\* Lines 56-58: the list is exhausted, the last error is returned.
BindExhausted ==
    /\ bpc = "loop"
    /\ rx_p = NULL
    /\ bind_rv' = bind_error_code
    /\ bpc' = "returned"
    /\ UNCHANGED <<resolved, rxservinfo, rx_p, bind_error_code, bind_sockfd,
                   bound_at>>
    /\ UNCHANGED <<nodevars, obsvars, codecvars, txvars>>

\* Lines 60-67: a socket is bound; the list is freed and error_code is
\* returned as the loop left it.
BindReturn ==
    /\ bpc = "bound"
    /\ rxservinfo' = <<>>
    /\ rx_p' = NULL
    /\ bind_rv' = bind_error_code
    /\ bpc' = "returned"
    /\ UNCHANGED <<resolved, bind_error_code, bind_sockfd, bound_at>>
    /\ UNCHANGED <<nodevars, obsvars, codecvars, txvars>>

\* Lines 10-14: the constructor ends the process unless rv is SUCCESS.
Construct ==
    /\ bpc = "returned"
    /\ bpc' = IF bind_rv # SUCCESS THEN "exit" ELSE "constructed"
    /\ UNCHANGED <<resolved, rxservinfo, rx_p, bind_error_code, bind_sockfd,
                   bound_at, bind_rv>>
    /\ UNCHANGED <<nodevars, obsvars, codecvars, txvars>>

BindNext ==
    BindGetaddrinfo \/ BindTry \/ BindExhausted \/ BindReturn \/ Construct

\* ----------------------------------------------------------------- tx alone

\* The descriptors socket() hands out for sending sockets: the lowest ones
\* above the listening socket's.
SendFds == (ListenFd + 1)..(ListenFd + MaxTxCalls)

\* What the system answers for an address of the list: socket() fails or
\* succeeds.
TxCandidates == {"nosocket", "ok"}

TxResolutions ==
    {[ok |-> FALSE, list |-> <<>>]}
        \cup {[ok |-> TRUE, list |-> l] :
                 l \in UNION {[1..n -> TxCandidates] : n \in 1..MaxCandidates}}

\* socket() returns the lowest descriptor that is not open.
LowestFree(fds) ==
    CHOOSE fd \in SendFds :
        fds[fd] = 0 /\ \A g \in SendFds : fds[g] = 0 => fd <= g

\* A thread calls tx (lines 218-226).
TxCall(t) ==
    /\ tx_fault = "none"
    /\ tpc[t] \in {"idle", "returned"}
    /\ ntx < MaxTxCalls
    /\ ntx' = ntx + 1
    /\ \E r \in TxResolutions :
          tx_resolved' = [tx_resolved EXCEPT ![t] = r]
    /\ \E ok \in BOOLEAN : tx_sendok' = [tx_sendok EXCEPT ![t] = ok]
    /\ tx_error_code' = [tx_error_code EXCEPT ![t] = SUCCESS]
    /\ tx_sent' = [tx_sent EXCEPT ![t] = "none"]
    /\ tx_rv' = [tx_rv EXCEPT ![t] = SUCCESS]
    /\ tpc' = [tpc EXCEPT ![t] = "getaddrinfo"]
    /\ UNCHANGED <<txservinfo, tx_p, sendsockfd, sendfds, tx_fault>>
    /\ UNCHANGED <<nodevars, obsvars, codecvars, bindvars>>

\* Lines 228-231 and the initialisation of the loop of line 234. When
\* getaddrinfo fails txservinfo is read uninitialised: it is the null
\* pointer, or a pointer whose first dereference (line 235) kills the process.
TxGetaddrinfo(t) ==
    /\ tx_fault = "none"
    /\ tpc[t] = "getaddrinfo"
    /\ IF tx_resolved[t].ok
       THEN /\ txservinfo' = [txservinfo EXCEPT ![t] = tx_resolved[t].list]
            /\ tx_p' = [tx_p EXCEPT ![t] = ListHead(tx_resolved[t].list)]
            /\ tpc' = [tpc EXCEPT ![t] = "loop"]
            /\ UNCHANGED <<tx_error_code, tx_fault>>
       ELSE /\ tx_error_code' =
                  [tx_error_code EXCEPT ![t] = GETADDRINFO_FAILED]
            /\ txservinfo' = [txservinfo EXCEPT ![t] = <<>>]
            /\ tx_p' = [tx_p EXCEPT ![t] = NULL]
            /\ \E wild \in BOOLEAN :
                  IF wild
                  THEN tx_fault' = "crash" /\ UNCHANGED tpc
                  ELSE tpc' = [tpc EXCEPT ![t] = "loop"]
                          /\ UNCHANGED tx_fault
    /\ UNCHANGED <<tx_resolved, tx_sendok, sendsockfd, sendfds, tx_sent,
                   tx_rv, ntx>>
    /\ UNCHANGED <<nodevars, obsvars, codecvars, bindvars>>

\* Lines 234-240, one address of the list: the result of socket() is stored
\* in _sendsockfd; the loop is left when it is a descriptor.
TxSocket(t) ==
    /\ tx_fault = "none"
    /\ tpc[t] = "loop"
    /\ tx_p[t] # NULL
    /\ IF txservinfo[t][tx_p[t]] = "nosocket"
       THEN /\ sendsockfd' = -1
            /\ tx_p' = [tx_p EXCEPT ![t] = ai_next(txservinfo[t], @)]
            /\ UNCHANGED <<tpc, sendfds>>
       ELSE /\ sendsockfd' = LowestFree(sendfds)
            /\ sendfds' = [sendfds EXCEPT ![LowestFree(sendfds)] = t]
            /\ tpc' = [tpc EXCEPT ![t] = "send"]
            /\ UNCHANGED tx_p
    /\ UNCHANGED <<tx_resolved, tx_sendok, txservinfo, tx_error_code, tx_sent,
                   tx_rv, tx_fault, ntx>>
    /\ UNCHANGED <<nodevars, obsvars, codecvars, bindvars>>

\* Lines 234, 242-247: the list is exhausted with no socket.
TxNoSocket(t) ==
    /\ tx_fault = "none"
    /\ tpc[t] = "loop"
    /\ tx_p[t] = NULL
    /\ tx_error_code' = [tx_error_code EXCEPT ![t] = SOCKET_CONN_FAILED]
    /\ tpc' = [tpc EXCEPT ![t] = "send"]
    /\ UNCHANGED <<tx_resolved, tx_sendok, txservinfo, tx_p, sendsockfd,
                   sendfds, tx_sent, tx_rv, tx_fault, ntx>>
    /\ UNCHANGED <<nodevars, obsvars, codecvars, bindvars>>

\* Lines 250-252: sendto on the descriptor _sendsockfd holds now. After a
\* loop that ended with tx_p == NULL the argument tx_p->ai_addr dereferences
\* the null pointer. sendto fails on -1 and on a closed descriptor (EBADF).
SendSucceeds(fd, fds, netok) == fd # -1 /\ fds[fd] # 0 /\ netok

TxSendto(t) ==
    /\ tx_fault = "none"
    /\ tpc[t] = "send"
    /\ IF tx_p[t] = NULL
       THEN /\ tx_fault' = "crash"
            /\ UNCHANGED <<tpc, tx_error_code, tx_sent>>
       ELSE /\ IF SendSucceeds(sendsockfd, sendfds, tx_sendok[t])
               THEN /\ tx_sent' = [tx_sent EXCEPT ![t] = "ok"]
                    /\ UNCHANGED tx_error_code
               ELSE /\ tx_sent' = [tx_sent EXCEPT ![t] = "failed"]
                    /\ tx_error_code' =
                          [tx_error_code EXCEPT ![t] = SENDTO_FAILED]
            /\ tpc' = [tpc EXCEPT ![t] = "close"]
            /\ UNCHANGED tx_fault
    /\ UNCHANGED <<tx_resolved, tx_sendok, txservinfo, tx_p, sendsockfd,
                   sendfds, tx_rv, ntx>>
    /\ UNCHANGED <<nodevars, obsvars, codecvars, bindvars>>

\* Lines 255-263: the list is freed; the descriptor _sendsockfd holds now is
\* closed, unless it is -1.
TxClose(t) ==
    /\ tx_fault = "none"
    /\ tpc[t] = "close"
    /\ txservinfo' = [txservinfo EXCEPT ![t] = <<>>]
    /\ tx_p' = [tx_p EXCEPT ![t] = NULL]
    /\ IF sendsockfd # -1
       THEN /\ sendfds' = [sendfds EXCEPT ![sendsockfd] = 0]
            /\ tpc' = [tpc EXCEPT ![t] = "store"]
       ELSE /\ tpc' = [tpc EXCEPT ![t] = "return"]
            /\ UNCHANGED sendfds
    /\ UNCHANGED <<tx_resolved, tx_sendok, tx_error_code, sendsockfd, tx_sent,
                   tx_rv, tx_fault, ntx>>
    /\ UNCHANGED <<nodevars, obsvars, codecvars, bindvars>>

\* Line 264: _sendsockfd = -1.
TxStore(t) ==
    /\ tx_fault = "none"
    /\ tpc[t] = "store"
    /\ sendsockfd' = -1
    /\ tpc' = [tpc EXCEPT ![t] = "return"]
    /\ UNCHANGED <<tx_resolved, tx_sendok, txservinfo, tx_p, tx_error_code,
                   sendfds, tx_sent, tx_rv, tx_fault, ntx>>
    /\ UNCHANGED <<nodevars, obsvars, codecvars, bindvars>>

\* Line 267.
TxReturn(t) ==
    /\ tx_fault = "none"
    /\ tpc[t] = "return"
    /\ tx_rv' = [tx_rv EXCEPT ![t] = tx_error_code[t]]
    /\ tpc' = [tpc EXCEPT ![t] = "returned"]
    /\ UNCHANGED <<tx_resolved, tx_sendok, txservinfo, tx_p, tx_error_code,
                   sendsockfd, sendfds, tx_sent, tx_fault, ntx>>
    /\ UNCHANGED <<nodevars, obsvars, codecvars, bindvars>>

tx(t) ==
    \/ TxCall(t)
    \/ TxGetaddrinfo(t)
    \/ TxSocket(t)
    \/ TxNoSocket(t)
    \/ TxSendto(t)
    \/ TxClose(t)
    \/ TxStore(t)
    \/ TxReturn(t)

TxNext == \E t \in Senders : tx(t)

\* -------------------------------------------------------- the codec alone

\* The bytes messages are made of: the zero byte, two ASCII letters, the
\* lowest and the highest byte with the top bit set.
Bytes == {0, 65, 66, 128, 255}

\* The std::string values given to serialize.
Messages == UNION {[1..n -> Bytes] : n \in 0..MaxMsgLen}

\* Frames other senders write: JSON objects with any of the members missing,
\* Join_thr absent, true or false, and any checksum.
ForeignFrames ==
    { MkFrame("peer", t, m, c, msg, crc, j) :
        t \in BOOLEAN, m \in BOOLEAN, c \in BOOLEAN,
        msg \in {MsgA, MsgHi, <<65, 0, 66>>},
        crc \in {<<0, 65>>, <<0, 255>>, <<65535, 65535>>},
        j \in {"absent", "true", "false"} }

\* Lines 371-395 applied to the message.
CodecSerialize ==
    /\ cstep = "input"
    /\ wire' = serialize("self", wmsg, wjoin)
    /\ worigin' = "serialize"
    /\ cstep' = "wire"
    /\ UNCHANGED <<wmsg, wjoin, decoded, parse_rv, valid>>
    /\ UNCHANGED <<nodevars, obsvars, bindvars, txvars>>

\* Instead, a frame written by another sender is in the buffer.
CodecForeign ==
    /\ cstep = "input"
    /\ wmsg = <<>>
    /\ wjoin = FALSE
    /\ \E f \in ForeignFrames : wire' = f
    /\ worigin' = "foreign"
    /\ cstep' = "wire"
    /\ UNCHANGED <<wmsg, wjoin, decoded, parse_rv, valid>>
    /\ UNCHANGED <<nodevars, obsvars, bindvars, txvars>>

\* Lines 283-321 applied to the buffer.
CodecParse ==
    /\ cstep = "wire"
    /\ parse_rv' = parseError(wire)
    /\ decoded' = parseDatagram(wire)
    /\ cstep' = "parsed"
    /\ UNCHANGED <<worigin, wmsg, wjoin, wire, valid>>
    /\ UNCHANGED <<nodevars, obsvars, bindvars, txvars>>

\* Lines 323-329 applied to the datagram, as rxLoop (line 146) and
\* printDatagram (line 278) do once parseDatagram has succeeded.
CodecValidate ==
    /\ cstep = "parsed"
    /\ parse_rv = SUCCESS
    /\ valid' = isDatagramValid(decoded)
    /\ cstep' = "validated"
    /\ UNCHANGED <<worigin, wmsg, wjoin, wire, decoded, parse_rv>>
    /\ UNCHANGED <<nodevars, obsvars, bindvars, txvars>>

CodecNext == CodecSerialize \/ CodecForeign \/ CodecParse \/ CodecValidate

\* ------------------------------------------------------ the specification

\* No consumer has made a query.
ObsIdle ==
    /\ seen = [c \in Consumers |-> 0]
    /\ raced = [c \in Consumers |-> FALSE]

\* The codec has been given nothing.
CodecIdle ==
    /\ cstep = "input"
    /\ worigin = "serialize"
    /\ wmsg = <<>>
    /\ wjoin = FALSE
    /\ wire = NoFrame
    /\ decoded = NoDatagram
    /\ parse_rv = SUCCESS
    /\ valid = FALSE

\* The constructor has bound the socket to the only address of the list.
BindIdle ==
    /\ bpc = "constructed"
    /\ resolved = [ok |-> TRUE, list |-> <<"ok">>]
    /\ rxservinfo = <<>>
    /\ rx_p = NULL
    /\ bind_error_code = SUCCESS
    /\ bind_sockfd = ListenFd
    /\ bound_at = 1
    /\ bind_rv = SUCCESS

\* No thread has called tx. The constructor does not initialise _sendsockfd;
\* tx reads it only after its loop has written it.
TxIdle ==
    /\ tpc = [t \in Senders |-> "idle"]
    /\ tx_resolved = [t \in Senders |-> [ok |-> FALSE, list |-> <<>>]]
    /\ tx_sendok = [t \in Senders |-> FALSE]
    /\ txservinfo = [t \in Senders |-> <<>>]
    /\ tx_p = [t \in Senders |-> NULL]
    /\ tx_error_code = [t \in Senders |-> SUCCESS]
    /\ sendsockfd = -1
    /\ sendfds = [fd \in SendFds |-> 0]
    /\ tx_sent = [t \in Senders |-> "none"]
    /\ tx_rv = [t \in Senders |-> SUCCESS]
    /\ tx_fault = "none"
    /\ ntx = 0

\* The state after UDPNode::UDPNode has returned.
Init == NodeInit /\ ObsIdle /\ CodecIdle /\ BindIdle /\ TxIdle

Next ==
    \/ rxLoop
    \/ RxRecvError
    \/ startRxLoop
    \/ endRxLoop
    \/ Destructor
    \/ EndRxLoopTx
    \/ EndRxLoopJoin
    \/ EndRxLoopClose
    \/ SentinelDeliver
    \/ SentinelLose
    \/ PeerSend
    \/ \E c \in Consumers : readRxDatagramFromQueue(c)

Spec == Init /\ [][Next]_vars

\* Every thread that can take a step of its own eventually takes it: the
\* receive thread, the controller inside endRxLoop, a consumer inside
\* readRxDatagramFromQueue. Nothing obliges the network to deliver, a system
\* call to fail, or a caller to make a call.
LiveSpec ==
    /\ Spec
    /\ WF_vars(rxLoop)
    /\ WF_vars(EndRxLoopTx \/ EndRxLoopJoin \/ EndRxLoopClose)
    /\ WF_vars(\E c \in Consumers :
                  PopBuffered(c) \/ PopEmptyCrash(c) \/ PopEmptyGarbage(c))

\* The codec is given any message and either value of jointhread.
CodecInit ==
    /\ NodeInit
    /\ ObsIdle
    /\ BindIdle
    /\ TxIdle
    /\ cstep = "input"
    /\ worigin = "serialize"
    /\ wmsg \in Messages
    /\ wjoin \in BOOLEAN
    /\ wire = NoFrame
    /\ decoded = NoDatagram
    /\ parse_rv = SUCCESS
    /\ valid = FALSE

CodecSpec == CodecInit /\ [][CodecNext]_vars

\* The constructor is entered; getaddrinfo is going to answer anything.
BindInit ==
    /\ NodeInit
    /\ ObsIdle
    /\ CodecIdle
    /\ TxIdle
    /\ bpc = "getaddrinfo"
    /\ resolved \in Resolutions
    /\ rxservinfo = <<>>
    /\ rx_p = NULL
    /\ bind_error_code = SUCCESS
    /\ bind_sockfd = -1
    /\ bound_at = NULL
    /\ bind_rv = SUCCESS

BindSpec == BindInit /\ [][BindNext]_vars

\* The constructed endpoint, with threads that call tx.
TxSpec == Init /\ [][TxNext]_vars

\* The endpoint while it receives, with consumers that query before they pop
\* (src/examples/UDPreceiver/main.cpp): the receive thread is started, peers
\* send, and each consumer asks rxDataAvailable() and pops when told so. The
\* socket stays bound: endRxLoop is not called.
ReceivingEndpoint ==
    \/ RxTest
    \/ RxRecv
    \/ RxRecvError
    \/ RxLog
    \/ RxCheck
    \/ writeRxDatagramToQueue
    \/ startRxLoop
    \/ PeerSend

ReceiverNext ==
    \/ ReceivingEndpoint
    \/ \E c \in Consumers : rxDataAvailableCall(c) \/ CheckedPop(c)

ReceiverSpec == Init /\ [][ReceiverNext]_vars

\* The first consumer thread alone, as in src/examples/UDPreceiver/main.cpp:
\* it asks rxDataAvailable() or rxDataQueueSize() and pops as often as it was
\* told.
SingleReceiverNext == ReceivingEndpoint \/ CheckingConsumer(1)

SingleReceiverSpec == Init /\ [][SingleReceiverNext]_vars

\* ------------------------------------------------------------- properties

\* The receive thread is inside rxLoop.
RxActive == rxpc \in {"test", "recv", "log", "check", "write"}

\* The controller is inside endRxLoop.
InStop == mainpc \in {"stop_tx", "stop_join", "stop_close"}

(* C1: in every reachable state, whatever the interleaving of the receive   *)
(* thread with the consumers, the queue holds at most maxqueuesize          *)
(* datagrams, and the int that rxDataQueueSize() returns is at most         *)
(* maxqueuesize.                                                            *)
C1_QueueBounded ==
    /\ Len(rxqueue) <= maxqueuesize
    /\ rxDataQueueSize <= maxqueuesize

\* The receive thread makes its capacity test with a datagram it would
\* enqueue, on a full queue, while a consumer is inside a pop.
C1_Witness ==
    /\ rxpc = "check"
    /\ EnqueueCondition(datagram, TRUE)
    /\ Len(rxqueue) = maxqueuesize
    /\ mtx # 0

(* C2: once endRxLoop is running, the socket is closed only in a step that  *)
(* finds the receive thread outside rxLoop and joined, and endRxLoop        *)
(* returns only in a step that leaves the thread outside rxLoop and the     *)
(* socket closed: the thread exits, then the socket is released, then       *)
(* endRxLoop returns.                                                       *)
C2_StopOrder ==
    [][ /\ (listensockfd # -1 /\ listensockfd' = -1)
            => (~RxActive /\ ~joinable)
        /\ (InStop /\ ~InStop')
            => (~RxActive' /\ ~joinable' /\ listensockfd' = -1) ]_vars

\* endRxLoop was entered with the thread started, the thread has left rxLoop
\* and has been joined, and the socket is still to be closed.
C2_Witness ==
    /\ mainpc = "stop_close"
    /\ ~stopidle
    /\ rxpc = "exited"
    /\ listensockfd # -1

(* C3: when endRxLoop waits for the receive thread and the datagram it sent *)
(* to its own port has been delivered to the listening socket, endRxLoop    *)
(* eventually returns, provided the process lives (the threads keep being   *)
(* scheduled).                                                              *)
C3_StopReturns ==
    (mainpc = "stop_join" /\ sentinel = "delivered")
        ~> (~InStop \/ fault # "none")

\* endRxLoop waits for a thread that is blocked in recvfrom, and the datagram
\* has arrived behind another datagram pending on the socket.
C3_Witness ==
    /\ mainpc = "stop_join"
    /\ sentinel = "delivered"
    /\ rxpc = "recv"
    /\ Len(sockbuf) >= 2

(* C4: after endRxLoop has returned, a thread that startRxLoop starts runs  *)
(* rxLoop on an open, bound listening socket (so that it receives the       *)
(* datagrams sent to the port instead of leaving the loop with a receive    *)
(* failure).                                                                *)
C4_RestartRunsCleanly ==
    (nstop > 0 /\ ~InStop /\ joinable) => listensockfd # -1

(* C5: a call of startRxLoop made while the receive thread is inside rxLoop *)
(* changes nothing: the thread stays where it is, the stop flag, the socket *)
(* and the queue are unchanged, and the process is not terminated.          *)
C5_StartWhileRunningIsNoop ==
    [][ (nstart' = nstart + 1 /\ joinable /\ RxActive)
            => /\ fault' = "none"
               /\ UNCHANGED <<joinable, rxpc, stoprecvthread, listensockfd,
                              rxqueue>> ]_vars

(* C6: every step of an endRxLoop that was entered with no receive thread   *)
(* (never started, or stopped before) leaves the listening socket, the stop *)
(* flag and the queue as they are, and sends no datagram.                   *)
C6_StopWhileIdleIsNoop ==
    [][ (mainpc' # mainpc /\ (stopidle \/ stopidle'))
            => /\ UNCHANGED <<listensockfd, stoprecvthread, rxqueue>>
               /\ sentinel' # "inflight" ]_vars

(* C7: the datagrams returned by the pops that found a datagram buffered,   *)
(* in the order of the pops, followed by the datagrams still buffered, in   *)
(* queue order, are the datagrams that were enqueued, in enqueue order:     *)
(* each such pop returned the oldest datagram buffered.                     *)
C7_FifoOrder == enq = popped \o rxqueue

\* Two different datagrams have been popped and a third is buffered.
C7_Witness ==
    /\ Len(popped) >= 2
    /\ popped[1] # popped[2]
    /\ rxqueue # <<>>

(* C8 as stated: a datagram that recvfrom returned while the queue held     *)
(* maxqueuesize datagrams is never appended to the queue.                   *)
C8_FullAtReceiveDrops == [][enq' # enq => ~fullatrecv]_vars

(* C8 as amended: when the receive thread makes its capacity test with the  *)
(* queue holding maxqueuesize datagrams and no consumer inside a pop, the   *)
(* datagram is dropped: the queue and the sequence of enqueued datagrams    *)
(* are unchanged, so no later pop returns it. A datagram is appended only   *)
(* to a queue that holds fewer than maxqueuesize datagrams. While no pop    *)
(* has been made, a valid datagram without the shutdown marker whose test   *)
(* finds room goes on to be pushed, and the queue is the sequence of the    *)
(* datagrams enqueued: the first maxqueuesize accepted ones at most.        *)
C8_FullAtTestDrops ==
    [][ /\ (rxpc = "check" /\ rxpc' # "check" /\ mtx = 0
                /\ Len(rxqueue) = maxqueuesize)
            => (rxpc' = "test" /\ rxqueue' = rxqueue /\ enq' = enq)
        /\ (enq' # enq)
            => (Len(rxqueue) < maxqueuesize
                    /\ rxqueue' = Append(rxqueue, datagram))
        /\ (rxpc = "check" /\ rxpc' # "check" /\ mtx = 0
                /\ popped = <<>> /\ underflow = 0
                /\ Len(rxqueue) < maxqueuesize
                /\ isDatagramValid(datagram) /\ ~datagram.jointhread)
            => rxpc' = "write"
        /\ (popped' = <<>> /\ underflow' = 0) => rxqueue' = enq' ]_vars

\* The capacity test is made for a datagram that is valid and carries no
\* shutdown marker, on a full queue, with no consumer inside a pop.
C8_Witness ==
    /\ rxpc = "check"
    /\ EnqueueCondition(datagram, TRUE)
    /\ Len(rxqueue) = maxqueuesize
    /\ mtx = 0

(* C9: a pop that finds no datagram in the queue leaves the queue and the   *)
(* endpoint as they are and reaches no undefined state: the cursors of the  *)
(* queue are not moved and the process lives.                               *)
C9_PopEmptyFailsCleanly ==
    [][ (\E c \in Consumers : cpc[c] = "pop" /\ DequeDistance <= 0
                                 /\ (cpc'[c] = "idle" \/ fault' # fault))
            => /\ fault' = "none"
               /\ UNCHANGED <<rxqueue, underflow>> ]_vars

\* xorFold of the specification: the XOR of the bytes as unsigned 8-bit
\* values, in an unsigned integer.
RECURSIVE XorFoldByte(_)
XorFoldByte(bytes) ==
    IF bytes = <<>> THEN 0 ELSE Xor(Head(bytes), XorFoldByte(Tail(bytes)))

XorFold(bytes) == <<0, XorFoldByte(bytes)>>

(* C10: every datagram in the queue has a checksum equal to the XOR-fold of *)
(* its message and carries no shutdown marker.                              *)
C10_QueueHoldsValidDatagrams ==
    \A i \in 1..Len(rxqueue) :
        /\ rxqueue[i].crc_checksum = XorFold(rxqueue[i].msg)
        /\ rxqueue[i].jointhread = FALSE

(* C11: a frame that lacks Time, Msg or CRC is dropped and the receive      *)
(* thread stays inside rxLoop: the step that takes such a frame from the    *)
(* socket leaves the queue as it is and takes the thread back to the loop   *)
(* test, from where it goes on to receive.                                  *)
C11_ParseFailureKeepsLoop ==
    [][ (rxpc = "recv" /\ sockbuf # <<>> /\ sockbuf' = Tail(sockbuf)
            /\ parseError(Head(sockbuf)) # SUCCESS)
            => (RxActive' /\ rxqueue' = rxqueue) ]_vars

(* C17: a failure of recvfrom ends the loop: in the step of the failure the *)
(* thread leaves rxLoop with the queue as it was, and a thread that has     *)
(* left rxLoop (until startRxLoop starts another) takes nothing from the    *)
(* socket and appends nothing to the queue.                                 *)
C17_ReceiveFailureEndsLoop ==
    [][ /\ (rxpc = "recv" /\ error_code' = RECVFROM_FAILED)
            => (rxpc' = "exited" /\ rxqueue' = rxqueue /\ enq' = enq
                    /\ sockbuf' = sockbuf)
        /\ (rxpc = "exited" /\ rxpc' = "exited")
            => (enq' = enq /\ Len(rxqueue') <= Len(rxqueue)
                    /\ (sockbuf' = sockbuf \/ sockbuf' = <<>>
                            \/ \E f \in PeerFrames \cup {SentinelFrame} :
                                   sockbuf' = Append(sockbuf, f))) ]_vars

\* recvfrom has failed on the bound socket with datagrams in the queue and
\* a datagram pending on the socket.
C17_Witness ==
    /\ rxpc = "exited"
    /\ error_code = RECVFROM_FAILED
    /\ listensockfd # -1
    /\ rxqueue # <<>>
    /\ sockbuf # <<>>

(* C18: the receive thread reads the queue only with the mutex held: the    *)
(* step in which it evaluates _rxqueue.size() for its capacity test is      *)
(* never taken while a consumer holds the mutex inside                      *)
(* readRxDatagramFromQueue.                                                 *)
C18_QueueReadUnderLock ==
    [][ (rxpc = "check" /\ rxpc' # "check" /\ datagram.jointhread = FALSE)
            => mtx = 0 ]_vars

(* C19: check-then-pop is not atomic. With two consumers that each call    *)
(* rxDataAvailable() and pop when it returned true, a consumer that was     *)
(* told of a buffered datagram can be inside readRxDatagramFromQueue on an  *)
(* empty queue (the witness), and it is there only because another consumer *)
(* popped between its query and its pop.                                    *)
C19_EmptyPopAfterCheckIsARace ==
    \A c \in Consumers :
        (cpc[c] = "pop" /\ seen[c] > 0 /\ DequeDistance <= 0) => raced[c]

\* A consumer that rxDataAvailable() told of a buffered datagram holds the
\* mutex inside readRxDatagramFromQueue, and the queue is empty.
C19_Witness ==
    \E c \in Consumers :
        /\ cpc[c] = "pop"
        /\ seen[c] > 0
        /\ rxqueue = <<>>
        /\ underflow = 0
        /\ raced[c]

(* C12: for every message m, parseDatagram applied to the frame that       *)
(* serialize(m, false) wrote succeeds and yields a datagram whose msg is m, *)
(* whose crc_checksum is the XOR-fold of m and whose jointhread is false.   *)
C12_RoundTrip ==
    (cstep \in {"parsed", "validated"} /\ worigin = "serialize" /\ ~wjoin)
        => /\ parse_rv = SUCCESS
           /\ decoded.msg = wmsg
           /\ decoded.crc_checksum = XorFold(wmsg)
           /\ decoded.jointhread = FALSE

(* C13: isDatagramValid holds of a datagram exactly when its crc_checksum   *)
(* is the XOR-fold of its msg, the bytes taken as unsigned 8-bit values,    *)
(* and it holds of every datagram parsed from a frame that serialize wrote. *)
C13_ChecksumsAgree ==
    cstep = "validated"
        => /\ valid <=> (decoded.crc_checksum = XorFold(decoded.msg))
           /\ worigin = "serialize" => valid

(* C16 as stated: parseDatagram returns PARSE_TIME_FAILED for every frame   *)
(* without Time, PARSE_MSG_FAILED for every frame without Msg,              *)
(* PARSE_CRC_FAILED for every frame without CRC, and SUCCESS, with          *)
(* jointhread false when Join_thr is absent, for a frame with all three.    *)
C16_EachMissingFieldItsCode ==
    cstep = "parsed"
        => /\ ~wire.hasTime => parse_rv = PARSE_TIME_FAILED
           /\ ~wire.hasMsg => parse_rv = PARSE_MSG_FAILED
           /\ ~wire.hasCRC => parse_rv = PARSE_CRC_FAILED
           /\ (wire.hasTime /\ wire.hasMsg /\ wire.hasCRC)
                 => /\ parse_rv = SUCCESS
                    /\ wire.join = "absent" => decoded.jointhread = FALSE

(* C16 as amended: parseDatagram fails exactly when one of Time, Msg, CRC   *)
(* is missing, and returns the code of the last missing member in that      *)
(* order: PARSE_CRC_FAILED when CRC is missing, PARSE_MSG_FAILED when Msg   *)
(* is missing and CRC is there, PARSE_TIME_FAILED when only Time is         *)
(* missing. A frame with all three is parsed with SUCCESS, and jointhread   *)
(* is false when Join_thr is absent.                                        *)
C16_LastMissingFieldDecides ==
    cstep = "parsed"
        => /\ ~wire.hasCRC => parse_rv = PARSE_CRC_FAILED
           /\ (wire.hasCRC /\ ~wire.hasMsg) => parse_rv = PARSE_MSG_FAILED
           /\ (wire.hasCRC /\ wire.hasMsg /\ ~wire.hasTime)
                 => parse_rv = PARSE_TIME_FAILED
           /\ (wire.hasTime /\ wire.hasMsg /\ wire.hasCRC)
                 => parse_rv = SUCCESS
           /\ wire.join = "absent" => decoded.jointhread = FALSE

\* A frame without Time and without CRC has been parsed.
C16_Witness ==
    /\ cstep = "parsed"
    /\ ~wire.hasTime
    /\ wire.hasMsg
    /\ ~wire.hasCRC
    /\ wire.join = "absent"

\* The addresses of the list that can be bound.
Bindable == {i \in 1..Len(resolved.list) : resolved.list[i] = "ok"}

\* The error of the address at place i of the list.
CandidateError(i) ==
    IF resolved.list[i] = "nosocket" THEN SOCKET_CONN_FAILED ELSE BIND_FAILED

(* C15: once the constructor has ended, the endpoint is constructed exactly *)
(* when getaddrinfo answered a list with an address that can be bound; the  *)
(* socket is then bound to the first such address of the list; and when no  *)
(* address of the list can be bound the error reported is that of the last  *)
(* address tried.                                                           *)
C15_BindsFirstUsable ==
    bpc \in {"constructed", "exit"}
        => /\ bpc = "constructed" <=> Bindable # {}
           /\ Bindable # {}
                 => (bound_at \in Bindable
                        /\ \A i \in Bindable : bound_at <= i)
           /\ (resolved.ok /\ Bindable = {})
                 => bind_rv = CandidateError(Len(resolved.list))

\* The code the claim gives a call of tx that has returned: that of the
\* first step that failed.
TxExpected(t) ==
    IF ~tx_resolved[t].ok THEN GETADDRINFO_FAILED
    ELSE IF \A i \in 1..Len(tx_resolved[t].list) :
                tx_resolved[t].list[i] = "nosocket"
         THEN SOCKET_CONN_FAILED
    ELSE IF tx_sent[t] = "failed" THEN SENDTO_FAILED
    ELSE SUCCESS

(* C14: every call of tx returns, and returns the code of the first step    *)
(* that failed: GETADDRINFO_FAILED exactly when getaddrinfo failed,         *)
(* SOCKET_CONN_FAILED exactly when socket() failed for every address,       *)
(* SENDTO_FAILED exactly when its sendto failed, SUCCESS otherwise; it      *)
(* makes no sendto after a failed earlier step.                             *)
C14_DistinctErrorPerStep ==
    /\ tx_fault = "none"
    /\ \A t \in Senders :
          tpc[t] = "returned"
              => /\ tx_rv[t] = TxExpected(t)
                 /\ TxExpected(t) \in {GETADDRINFO_FAILED, SOCKET_CONN_FAILED}
                       => tx_sent[t] = "none"

(* C20: a call of tx sends only on the socket it opened itself and closes   *)
(* only that socket, and when no call is in progress no sending socket is   *)
(* open.                                                                    *)
C20_OwnSocketPerCall ==
    [][ /\ \A t \in Senders :
              /\ (tpc[t] = "send" /\ tpc'[t] = "close" /\ sendsockfd # -1
                      /\ sendfds[sendsockfd] # 0)
                    => sendfds[sendsockfd] = t
              /\ (tpc[t] = "close" /\ tpc'[t] # "close")
                    => \A fd \in SendFds :
                          sendfds'[fd] # sendfds[fd] => sendfds[fd] = t
        /\ (\A t \in Senders : tpc'[t] \in {"idle", "returned"})
              => \A fd \in SendFds : sendfds'[fd] = 0 ]_vars

(* C21: a frame with the shutdown marker that is received while the stop   *)
(* flag is not set does not take the receive thread out of rxLoop, and the  *)
(* thread leaves rxLoop only in a step that finds the stop flag set or in   *)
(* which recvfrom fails.                                                    *)
C21_MarkerDoesNotEndLoop ==
    [][ /\ (rxpc = "recv" /\ sockbuf # <<>> /\ sockbuf' = Tail(sockbuf)
                /\ Head(sockbuf).join = "true" /\ ~stoprecvthread
                /\ parseError(Head(sockbuf)) = SUCCESS)
            => RxActive'
        /\ (RxActive /\ rxpc' = "exited")
            => (stoprecvthread \/ error_code' = RECVFROM_FAILED) ]_vars

\* The part of C21 about the marker alone: the thread that has parsed a
\* datagram with the shutdown marker drops it and goes back to the loop
\* test, whatever the stop flag is.
C21_MarkerAlone ==
    [][ (RxActive /\ datagram.jointhread /\ rxpc' # rxpc /\ fault' = "none")
            => (rxpc' \in {"check", "test"} /\ enq' = enq) ]_vars

(* C22: with one consumer thread that queries before it pops, next to the   *)
(* running receive thread, the queue holds at every moment at least as many *)
(* datagrams as the consumer's last query told it of and it has not popped  *)
(* yet: each pop made after rxDataAvailable() returned true, and each of    *)
(* the N pops made after rxDataQueueSize() returned N, finds a datagram;    *)
(* the cursors never cross and no pop kills the process.                    *)
C22_SingleConsumerFindsData ==
    /\ underflow = 0
    /\ fault # "crash"
    /\ \A c \in Consumers : seen[c] >= 0 /\ Len(rxqueue) >= seen[c]

\* The consumer is inside the first of the two pops rxDataQueueSize() told
\* it to make, while the receive thread is about to push a third datagram.
C22_Witness ==
    /\ cpc[1] = "pop"
    /\ seen[1] = 2
    /\ rxpc = "write"

====
